---- MODULE Spec2Model ----
(***************************************************************************)
(* A model of intellex-communications: the Resend webhook signature       *)
(* verifier (src/webhooks/resend.ts) and the HTTP service (src/index.ts): *)
(* the /send rate limiter, authentication, validation, template          *)
(* resolution, provider send, event forwarding and the provider webhook.  *)
(*                                                                         *)
(* Strings are sequences of characters; a character is a one-element     *)
(* tuple <<"c">>, so that a string may also carry an HMAC digest, which   *)
(* is the symbolic term <<"hmac-sha256", secret, message>> (equal digests *)
(* iff equal key and message).                                            *)
(***************************************************************************)
EXTENDS Integers, Sequences, FiniteSets, TLC

VARIABLES
    sigIn,      \* the arguments of one verifyResendSignature call
    sigOut,     \* its VerificationResult, or NoResult before the call
    disk,       \* the files of the file system, as absolute paths
    allowedTemplates,   \* index.ts:38, the names found by the startup scan
    tplCall,    \* the last template call: its input, outcome and file read
    clock,      \* Date.now(), in milliseconds
    store,      \* the rate limiter's store: key -> [totalHits, resetTime]
    inFlight,   \* the /send requests inside the sendLimiter middleware, by slot
    window,     \* history: key -> the current window's start, requests and admissions
    claimWindow,    \* history: the same, by the key as the specification derives it
    config,     \* process.env as read at startup (index.ts:32-36)
    hook,       \* the last /webhooks/provider request and the answer it got
    forwards,   \* the postApiPayload fetches that have not settled yet
    downstream, \* the payloads the downstream API has accepted
    req,        \* the /send request being served
    pc,         \* where its handler stands: at the limiter, in the handler, at an await
    ctx,        \* the handler's locals; result and forwarded are history
    res,        \* the response sent for it
    trace,      \* history: the stages the request has passed, in order
    served,     \* the number of /send requests received
    val         \* one body through validateSendRequest and, if valid, loadTemplate

sigVars == <<sigIn, sigOut>>

tplVars == <<disk, allowedTemplates, tplCall>>

limVars == <<clock, store, inFlight, window, claimWindow>>

envVars == <<config>>

hookVars == <<hook, forwards, downstream>>

sendVars == <<req, pc, ctx, res, trace, served>>

vars == <<sigVars, tplVars, limVars, envVars, hookVars, sendVars, val>>

\* what the steps of each part leave alone
notSig == <<val, tplVars, limVars, envVars, hookVars, sendVars>>

notTpl == <<val, sigVars, limVars, envVars, hookVars, sendVars>>

notLim == <<val, sigVars, tplVars, envVars, hookVars, sendVars>>

notHook == <<sigVars, tplVars, limVars, sendVars, val>>

notSend == <<sigVars, tplCall, clock, inFlight, window, claimWindow, hook, config, val>>

(***************************************************************************)
(* Strings and numbers                                                     *)
(***************************************************************************)
Str(s) == [i \in 1..Len(s) |-> <<s[i]>>]

Undefined == [def |-> FALSE, val |-> 0]

Some(v) == [def |-> TRUE, val |-> v]

DigitChars == <<"0", "1", "2", "3", "4", "5", "6", "7", "8", "9">>

IsDigit(c) == \E d \in 1..10 : c = <<DigitChars[d]>>

DigitValue(c) == (CHOOSE d \in 1..10 : c = <<DigitChars[d]>>) - 1

IsSpace(c) == c = <<" ">>

RECURSIVE NatToString(_)
NatToString(n) ==
    IF n < 10 THEN << <<DigitChars[n + 1]>> >>
    ELSE NatToString(n \div 10) \o << <<DigitChars[(n % 10) + 1]>> >>

\* `${timestamp}` for an integer-valued number below 10^21
NumberToString(n) ==
    IF n < 0 THEN << <<"-">> >> \o NatToString(-n) ELSE NatToString(n)

RECURSIVE TrimStart(_)
TrimStart(s) ==
    IF s # <<>> /\ IsSpace(Head(s)) THEN TrimStart(Tail(s)) ELSE s

RECURSIVE TrimEnd(_)
TrimEnd(s) ==
    IF s # <<>> /\ IsSpace(s[Len(s)]) THEN TrimEnd(SubSeq(s, 1, Len(s) - 1)) ELSE s

\* String.prototype.trim
Trim(s) == TrimEnd(TrimStart(s))

RECURSIVE LeadingDigits(_)
LeadingDigits(s) ==
    IF s # <<>> /\ IsDigit(Head(s)) THEN <<Head(s)>> \o LeadingDigits(Tail(s)) ELSE <<>>

RECURSIVE DigitsToNat(_, _)
DigitsToNat(ds, acc) ==
    IF ds = <<>> THEN acc ELSE DigitsToNat(Tail(ds), acc * 10 + DigitValue(Head(ds)))

\* Number.parseInt(value, 10): leading white space skipped, an optional sign, then
\* the longest run of digits; NaN (def = FALSE) when there is no digit.
ParseInt(value) ==
    LET t == TrimStart(value)
        neg == t # <<>> /\ Head(t) = <<"-">>
        signed == t # <<>> /\ (Head(t) = <<"-">> \/ Head(t) = <<"+">>)
        rest == IF signed THEN Tail(t) ELSE t
        ds == LeadingDigits(rest)
    IN  IF ds = <<>> THEN Undefined
        ELSE Some(IF neg THEN -DigitsToNat(ds, 0) ELSE DigitsToNat(ds, 0))

\* String.prototype.split(sep) for a one-character separator
RECURSIVE Split(_, _)
Split(s, sep) ==
    IF \A i \in 1..Len(s) : s[i] # sep THEN <<s>>
    ELSE LET k == CHOOSE i \in 1..Len(s) : s[i] = sep /\ \A j \in 1..(i - 1) : s[j] # sep
         IN  <<SubSeq(s, 1, k - 1)>> \o Split(SubSeq(s, k + 1, Len(s)), sep)

(***************************************************************************)
(* src/webhooks/resend.ts                                                  *)
(***************************************************************************)
SIGNATURE_VERSION == Str(<<"v", "1">>)

SIGNATURE_SEPARATOR == <<",">>

SIGNATURE_KV_SEPARATOR == <<"=">>

PAYLOAD_SEPARATOR == <<".">>

DEFAULT_TOLERANCE_SECONDS == 300

\* the length of the hex rendering of a SHA-256 digest
DIGEST_HEX_LENGTH == 64

parseKeyValue(part) ==
    LET trimmed == Trim(part)
        pieces == Split(trimmed, SIGNATURE_KV_SEPARATOR)
    IN  IF trimmed = <<>> THEN [ok |-> FALSE, key |-> <<>>, value |-> <<>>]
        ELSE IF pieces[1] = <<>> \/ Len(pieces) < 2
             THEN [ok |-> FALSE, key |-> <<>>, value |-> <<>>]
             ELSE [ok |-> TRUE, key |-> pieces[1], value |-> pieces[2]]

\* One turn of the loop of parseResendSignatureHeader over the parts of the header
ParseStep(acc, part) ==
    LET pair == parseKeyValue(part)
    IN  IF ~pair.ok THEN acc
        ELSE IF pair.key = Str(<<"t">>)
             THEN LET parsed == ParseInt(pair.value)
                  IN  IF parsed.def THEN [acc EXCEPT !.timestamp = parsed] ELSE acc
             ELSE IF pair.key = SIGNATURE_VERSION
                  THEN [acc EXCEPT !.signature = Some(pair.value)]
                  ELSE acc

RECURSIVE ParseParts(_, _)
ParseParts(acc, parts) ==
    IF parts = <<>> THEN acc ELSE ParseParts(ParseStep(acc, Head(parts)), Tail(parts))

\* headerValue is [tag |-> "undefined"], [tag |-> "string", val |-> s] or
\* [tag |-> "array", val |-> <<s, ...>>]; the result has ok = FALSE for null.
parseResendSignatureHeader(headerValue) ==
    LET null == [ok |-> FALSE, timestamp |-> 0, signature |-> <<>>]
        rawDef == CASE headerValue.tag = "string" -> headerValue.val # <<>>
                    [] headerValue.tag = "array" ->
                          headerValue.val # <<>> /\ headerValue.val[1] # <<>>
                    [] OTHER -> FALSE
        raw == IF headerValue.tag = "array" THEN headerValue.val[1] ELSE headerValue.val
        acc == ParseParts([timestamp |-> Undefined, signature |-> Undefined],
                          Split(raw, SIGNATURE_SEPARATOR))
    IN  IF ~rawDef THEN null
        ELSE IF ~acc.timestamp.def \/ ~acc.signature.def \/ acc.signature.val = <<>>
             THEN null
             ELSE [ok |-> TRUE, timestamp |-> acc.timestamp.val,
                   signature |-> acc.signature.val]

buildSignedPayload(timestamp, payload) ==
    NumberToString(timestamp) \o <<PAYLOAD_SEPARATOR>> \o payload

\* HMAC-SHA256 in hex, as a one-element string holding the symbolic digest
computeResendSignature(secret, timestamp, payload) ==
    << <<"hmac-sha256", secret, buildSignedPayload(timestamp, payload)>> >>

RECURSIVE ByteLength(_)
ByteLength(s) ==
    IF s = <<>> THEN 0
    ELSE (IF Len(Head(s)) = 1 THEN 1 ELSE DIGEST_HEX_LENGTH) + ByteLength(Tail(s))

\* mutant of timingSafeEqual: the lengths are compared, the bytes are not
timingSafeEqual_LengthOnly(expected, provided) ==
    ByteLength(expected) = ByteLength(provided)

timingSafeEqual(expected, provided) ==
    IF ByteLength(expected) # ByteLength(provided) THEN FALSE
    ELSE expected = provided

\* mutant of OutsideTolerance: only timestamps in the past are rejected
OutsideTolerance_PastOnly(nowSeconds, timestamp, tolerance) ==
    nowSeconds - timestamp > tolerance

\* Math.abs(nowSeconds - parsed.timestamp) > tolerance
OutsideTolerance(nowSeconds, timestamp, tolerance) ==
    LET diff == nowSeconds - timestamp
    IN  (IF diff < 0 THEN -diff ELSE diff) > tolerance

Reject(reason, timestamp) == [ok |-> FALSE, reason |-> reason, timestamp |-> timestamp]

\* toleranceSeconds and now are Undefined or Some(n); dateNow is Date.now()
verifyResendSignature(secret, signatureHeader, payload, toleranceSeconds, now, dateNow) ==
    LET parsed == parseResendSignatureHeader(signatureHeader)
        nowSeconds == (IF now.def THEN now.val ELSE dateNow) \div 1000
        tolerance == IF toleranceSeconds.def THEN toleranceSeconds.val
                     ELSE DEFAULT_TOLERANCE_SECONDS
        expected == computeResendSignature(secret, parsed.timestamp, payload)
    IN  IF ~parsed.ok THEN Reject("missing signature header", Undefined)
        ELSE IF OutsideTolerance(nowSeconds, parsed.timestamp, tolerance)
             THEN Reject("signature timestamp outside tolerance", Some(parsed.timestamp))
             ELSE IF ~timingSafeEqual(expected, parsed.signature)
                  THEN Reject("signature mismatch", Some(parsed.timestamp))
                  ELSE [ok |-> TRUE, reason |-> "", timestamp |-> Some(parsed.timestamp)]

\* mutant of createResendSignatureHeader: the pairs are joined with ';'
createResendSignatureHeader_Semicolon(secret, timestamp, payload) ==
    Str(<<"t", "=">>) \o NumberToString(timestamp) \o Str(<<";">>)
        \o SIGNATURE_VERSION \o Str(<<"=">>) \o computeResendSignature(secret, timestamp, payload)

createResendSignatureHeader(secret, timestamp, payload) ==
    LET signature == computeResendSignature(secret, timestamp, payload)
    IN  Str(<<"t", "=">>) \o NumberToString(timestamp) \o Str(<<",">>)
            \o SIGNATURE_VERSION \o Str(<<"=">>) \o signature

(***************************************************************************)
(* src/index.ts: template registry and resolver                            *)
(***************************************************************************)
UpperChars ==
    <<"A", "B", "C", "D", "E", "F", "G", "H", "I", "J", "K", "L", "M",
      "N", "O", "P", "Q", "R", "S", "T", "U", "V", "W", "X", "Y", "Z">>

LowerChars ==
    <<"a", "b", "c", "d", "e", "f", "g", "h", "i", "j", "k", "l", "m",
      "n", "o", "p", "q", "r", "s", "t", "u", "v", "w", "x", "y", "z">>

Lower(c) ==
    IF \E i \in 1..26 : c = <<UpperChars[i]>>
    THEN <<LowerChars[CHOOSE i \in 1..26 : c = <<UpperChars[i]>>]>>
    ELSE c

ToLowerCase(s) == [i \in 1..Len(s) |-> Lower(s[i])]

StartsWith(s, prefix) ==
    Len(s) >= Len(prefix) /\ SubSeq(s, 1, Len(prefix)) = prefix

EndsWith(s, suffix) ==
    Len(s) >= Len(suffix) /\ SubSeq(s, Len(s) - Len(suffix) + 1, Len(s)) = suffix

Includes(s, sub) ==
    \E i \in 1..(Len(s) - Len(sub) + 1) : SubSeq(s, i, i + Len(sub) - 1) = sub

DotHtml == Str(<<".", "h", "t", "m", "l">>)

\* s.replace(/^\/+/, '')
RECURSIVE StripLeadingSlashes(_)
StripLeadingSlashes(s) ==
    IF s # <<>> /\ Head(s) = <<"/">> THEN StripLeadingSlashes(Tail(s)) ELSE s

\* s.replace(/\.html$/i, '')
StripHtmlSuffix(s) ==
    IF EndsWith(ToLowerCase(s), DotHtml) THEN SubSeq(s, 1, Len(s) - Len(DotHtml)) ELSE s

RECURSIVE JoinWith(_, _)
JoinWith(parts, sep) ==
    IF parts = <<>> THEN <<>>
    ELSE IF Len(parts) = 1 THEN parts[1]
         ELSE parts[1] \o <<sep>> \o JoinWith(Tail(parts), sep)

\* the text of an absolute path given as its segments
PathString(segments) == << <<"/">> >> \o JoinWith(segments, <<"/">>)

\* path.normalize on the segments of a POSIX path: '.' and empty segments are
\* dropped, '..' removes the segment before it (and is dropped at the root)
RECURSIVE NormalizeSegments(_, _)
NormalizeSegments(acc, segments) ==
    IF segments = <<>> THEN acc
    ELSE LET seg == Head(segments)
             next == IF seg = <<>> \/ seg = Str(<<".">>) THEN acc
                     ELSE IF seg = Str(<<".", ".">>)
                          THEN (IF acc = <<>> THEN acc ELSE SubSeq(acc, 1, Len(acc) - 1))
                          ELSE Append(acc, seg)
         IN  NormalizeSegments(next, Tail(segments))

\* path.resolve(base, rel) for an absolute base: an absolute rel replaces the base
PathResolve(base, rel) ==
    IF rel # <<>> /\ Head(rel) = <<"/">>
    THEN NormalizeSegments(<<>>, Split(rel, <<"/">>))
    ELSE NormalizeSegments(base, Split(rel, <<"/">>))

\* path.join(base, rel): rel is always taken relative to base
PathJoin(base, rel) == NormalizeSegments(base, Split(rel, <<"/">>))

\* index.ts:31, path.resolve(__dirname, '..', 'templates')
templatesDir == <<Str(<<"a", "p", "p">>), Str(<<"t", "p", "l">>)>>

IsUnder(path, dir) == Len(path) > Len(dir) /\ SubSeq(path, 1, Len(dir)) = dir

\* readdirSync throws when the directory is missing: here, when nothing lies under it
discoverTemplates(files, baseDir) ==
    IF \A f \in files : ~IsUnder(f, baseDir)
    THEN [ok |-> FALSE, templates |-> {}]
    ELSE [ok |-> TRUE,
          templates |->
            {StripHtmlSuffix(JoinWith(SubSeq(f, Len(baseDir) + 1, Len(f)), <<"/">>)) :
                f \in {g \in files : IsUnder(g, baseDir) /\ EndsWith(g[Len(g)], DotHtml)}}]

safeDiscoverTemplates(files, baseDir) ==
    LET found == discoverTemplates(files, baseDir)
    IN  IF found.ok THEN found.templates ELSE {}

Throw(message) == [ok |-> FALSE, error |-> message, value |-> <<>>]

Return(value) == [ok |-> TRUE, error |-> "", value |-> value]

\* template is [type |-> "undefined" | "number" | "string", val |-> characters]
normalizeTemplateName(template) ==
    LET cleaned == StripHtmlSuffix(StripLeadingSlashes(Trim(template.val)))
    IN  IF template.type # "string" \/ template.val = <<>> THEN Throw("Template is required")
        ELSE IF Includes(template.val, Str(<<".", ".">>)) THEN Throw("Invalid template path")
        ELSE IF cleaned = <<>> THEN Throw("Template is required")
        ELSE Return(cleaned)

\* mutant of resolveTemplatePath: the allowlist is not consulted
resolveTemplatePath_NoAllowlist(template, allowed) ==
    LET normalized == normalizeTemplateName(template)
        resolved == PathResolve(templatesDir, normalized.value \o DotHtml)
    IN  IF ~normalized.ok THEN normalized
        ELSE IF ~StartsWith(PathString(resolved), PathString(templatesDir) \o << <<"/">> >>)
                /\ resolved # templatesDir
             THEN Throw("Template path outside allowed directory")
             ELSE Return(resolved)

resolveTemplatePath(template, allowed) ==
    LET normalized == normalizeTemplateName(template)
        resolved == PathResolve(templatesDir, normalized.value \o DotHtml)
    IN  IF ~normalized.ok THEN normalized
        ELSE IF normalized.value \notin allowed THEN Throw("Unknown template")
        ELSE IF ~StartsWith(PathString(resolved), PathString(templatesDir) \o << <<"/">> >>)
                /\ resolved # templatesDir
             THEN Throw("Template path outside allowed directory")
             ELSE Return(resolved)

\* index.ts:542, the resolver of the second server definition of the file
normalizeTemplatePath(template) ==
    LET cleaned == StripLeadingSlashes(template.val)
        withExt == IF EndsWith(cleaned, DotHtml) THEN cleaned ELSE cleaned \o DotHtml
    IN  IF template.type # "string" THEN Throw("template.replace is not a function")
        ELSE Return(PathJoin(templatesDir, withExt))

\* loadTemplate up to its readFile: the path handed to readFile and what it finds
\* (the rendering of the file's text is not modelled)
LoadOutcome(resolution, files) ==
    [ok |-> resolution.ok /\ resolution.value \in files,
     error |-> IF ~resolution.ok THEN resolution.error
               ELSE IF resolution.value \in files THEN "" ELSE "ENOENT",
     read |-> resolution.ok,
     path |-> resolution.value]

loadTemplate(template, allowed, files) ==
    LoadOutcome(resolveTemplatePath(template, allowed), files)

\* index.ts:556, loadTemplate of the second server definition
loadTemplateSecond(template, files) ==
    LoadOutcome(normalizeTemplatePath(template), files)

(***************************************************************************)
(* src/index.ts: request validation                                        *)
(***************************************************************************)
MAX_SUBJECT_LENGTH == 180

MAX_ID_LENGTH == 120

MAX_DATA_BYTES == 20000

CHANNEL_EMAIL == "email"

\* a JSON value of a request body: type is "undefined", "null", "number", "string"
\* or "object"; val holds the characters of a string
NoValue == [type |-> "undefined", val |-> <<>>]

StringValue(s) == [type |-> "string", val |-> s]

\* the number 7; val is its toString()
NumberValue == [type |-> "number", val |-> Str(<<"7">>)]

\* !value for the values above (no number here is 0)
Falsy(v) == v.type \in {"undefined", "null"} \/ (v.type = "string" /\ v.val = <<>>)

IsSpaceOrAt(c) == IsSpace(c) \/ c = <<"@">>

\* EMAIL_REGEX = /^[^\s@]+@[^\s@]+\.[^\s@]+$/
EmailRegexTest(s) ==
    \E at \in 2..(Len(s) - 3) :
        /\ s[at] = <<"@">>
        /\ \A i \in (1..Len(s)) \ {at} : ~IsSpaceOrAt(s[i])
        /\ \E dot \in (at + 2)..(Len(s) - 1) : s[dot] = <<".">>

\* 'Intellex notification'
DefaultSubject ==
    Str(<<"I", "n", "t", "e", "l", "l", "e", "x", " ",
          "n", "o", "t", "i", "f", "i", "c", "a", "t", "i", "o", "n">>)

NoValidated ==
    [id |-> <<>>, templateName |-> <<>>, to |-> <<>>, subject |-> <<>>,
     data |-> [type |-> "undefined", jsonLength |-> 0, utf8Bytes |-> 0], channel |-> ""]

Invalid(message) == [ok |-> FALSE, error |-> message, value |-> NoValidated]

UnsupportedChannel(channel) ==
    CASE channel = "sms" -> "Unsupported channel: sms"
      [] channel = "push" -> "Unsupported channel: push"
      [] OTHER -> "Unsupported channel: unknown"

\* mutant of validateSendRequest: the subject is checked before the recipient
validateSendRequest_SubjectBeforeTo(body, allowed) ==
    LET id == Trim(body.id.val)
        templateName == normalizeTemplateName(body.template)
        to == Trim(body.to.val)
        subject == IF body.subject.type \in {"undefined", "null"} THEN DefaultSubject
                   ELSE Trim(body.subject.val)
    IN  IF Falsy(body.id) \/ body.id.type # "string" \/ id = <<>> THEN Invalid("id is required")
        ELSE IF Len(id) > MAX_ID_LENGTH THEN Invalid("id too long")
        ELSE IF body.channel # CHANNEL_EMAIL THEN Invalid(UnsupportedChannel(body.channel))
        ELSE IF ~templateName.ok THEN Invalid(templateName.error)
        ELSE IF templateName.value \notin allowed THEN Invalid("Unknown template")
        ELSE IF subject = <<>> \/ Len(subject) > MAX_SUBJECT_LENGTH
             THEN Invalid("subject is required and must be <= 180 characters")
        ELSE IF body.to.type \notin {"undefined", "null", "string"}
             THEN Invalid("body.to?.trim is not a function")
        ELSE IF Falsy(body.to) \/ to = <<>> \/ Len(to) > 320 \/ ~EmailRegexTest(to)
             THEN Invalid("Valid \"to\" email is required")
        ELSE IF body.data.type # "object" THEN Invalid("data must be an object")
        ELSE IF body.data.jsonLength > MAX_DATA_BYTES THEN Invalid("data payload too large")
        ELSE [ok |-> TRUE, error |-> "",
              value |-> [id |-> id, templateName |-> templateName.value, to |-> to,
                         subject |-> subject, data |-> body.data, channel |-> body.channel]]

\* body has the fields id, template, to, subject (JSON values), channel (a string,
\* "undefined" when absent) and data ([type, jsonLength, utf8Bytes], the lengths
\* being those of JSON.stringify(data) in UTF-16 code units and in UTF-8 bytes)
validateSendRequest(body, allowed) ==
    LET id == Trim(body.id.val)
        templateName == normalizeTemplateName(body.template)
        to == Trim(body.to.val)
        subject == IF body.subject.type \in {"undefined", "null"} THEN DefaultSubject
                   ELSE Trim(body.subject.val)
    IN  IF Falsy(body.id) \/ body.id.type # "string" \/ id = <<>> THEN Invalid("id is required")
        ELSE IF Len(id) > MAX_ID_LENGTH THEN Invalid("id too long")
        ELSE IF body.channel # CHANNEL_EMAIL THEN Invalid(UnsupportedChannel(body.channel))
        ELSE IF ~templateName.ok THEN Invalid(templateName.error)
        ELSE IF templateName.value \notin allowed THEN Invalid("Unknown template")
        ELSE IF body.to.type \notin {"undefined", "null", "string"}
             THEN Invalid("body.to?.trim is not a function")
        ELSE IF Falsy(body.to) \/ to = <<>> \/ Len(to) > 320 \/ ~EmailRegexTest(to)
             THEN Invalid("Valid \"to\" email is required")
        ELSE IF subject = <<>> \/ Len(subject) > MAX_SUBJECT_LENGTH
             THEN Invalid("subject is required and must be <= 180 characters")
        ELSE IF body.data.type # "object" THEN Invalid("data must be an object")
        ELSE IF body.data.jsonLength > MAX_DATA_BYTES THEN Invalid("data payload too large")
        ELSE [ok |-> TRUE, error |-> "",
              value |-> [id |-> id, templateName |-> templateName.value, to |-> to,
                         subject |-> subject, data |-> body.data, channel |-> body.channel]]


(***************************************************************************)
(* src/index.ts: sendLimiter (express-rate-limit with its memory store)    *)
(***************************************************************************)
SEND_RATE_LIMIT == 30

SEND_WINDOW_MS == 60000

\* the x-communications-secret header of a request: absent, or a string (Node
\* joins repeated headers of this name into one string, so no array arrives)
NoSecretHeader == [present |-> FALSE, val |-> ""]

SecretHeader(v) == [present |-> TRUE, val |-> v]

\* keyGenerator: 'secret:<header>' for a truthy header, else ipKeyGenerator(req.ip)
keyGenerator(header, ip) ==
    IF header.present /\ header.val # "" THEN <<"secret:", header.val>> ELSE <<"ip", ip>>

\* a key the store has never seen, or has dropped
NoClient == [totalHits |-> 0, resetTime |-> 0]

\* MemoryStore.increment: a client whose window has run out starts a new one
increment(client, dateNow) ==
    LET current == IF client.resetTime <= dateNow
                   THEN [totalHits |-> 0, resetTime |-> dateNow + SEND_WINDOW_MS]
                   ELSE client
    IN  [current EXCEPT !.totalHits = @ + 1]

\* mutant of LimitExceeded: the request that reaches the limit is refused too
LimitExceeded_AtLimit(totalHits) == totalHits >= SEND_RATE_LIMIT

\* the middleware answers through handler (429) when totalHits > max
LimitExceeded(totalHits) == totalHits > SEND_RATE_LIMIT


(***************************************************************************)
(* src/index.ts: configuration, event forwarding and the provider webhook  *)
(***************************************************************************)
WEBHOOK_TOLERANCE_SECONDS == 300

API_EVENTS_PATH == "/communications/events"

API_MESSAGES_PATH == "/communications/messages"

PROVIDER_NAME == "resend"

\* an environment variable that is not set, or set to '': the code tests each
\* of them for truthiness only
Unset == ""

\* postApiPayload up to its fetch: the payload is sent only with both settings
postApiPayloadSends(env) == env.apiBaseUrl # Unset /\ env.apiSecret # Unset

\* a JSON object (or array): its own members, as a record of JSON values
Object(members) == [type |-> "object", val |-> <<>>, members |-> members]

\* current[part]: undefined for a member the object does not have
Member(current, part) ==
    IF part \in DOMAIN current.members THEN current.members[part] ELSE NoValue

Null == [def |-> FALSE, val |-> <<>>]

NonNull(s) == [def |-> TRUE, val |-> s]

readString(value) ==
    IF value.type # "string" THEN Null
    ELSE IF Trim(value.val) = <<>> THEN Null ELSE NonNull(Trim(value.val))

EVENT_STATUS_ALIASES ==
    {<<Str(<<"d", "e", "l", "i", "v", "e", "r", "e", "d">>), "delivered">>,
     <<Str(<<"b", "o", "u", "n", "c", "e", "d">>), "bounced">>,
     <<Str(<<"c", "o", "m", "p", "l", "a", "i", "n", "t">>), "complaint">>,
     <<Str(<<"c", "o", "m", "p", "l", "a", "i", "n", "e", "d">>), "complaint">>,
     <<Str(<<"d", "r", "o", "p", "p", "e", "d">>), "dropped">>,
     <<Str(<<"s", "e", "n", "t">>), "sent">>,
     <<Str(<<"f", "a", "i", "l", "e", "d">>), "failed">>,
     <<Str(<<"q", "u", "e", "u", "e", "d">>), "queued">>}

\* EVENT_STATUS_ALIASES is an object literal: a key it does not own is looked up
\* on Object.prototype, whose all-lower-case keys are these two
ObjectPrototypeMembers ==
    {<<Str(<<"c", "o", "n", "s", "t", "r", "u", "c", "t", "o", "r">>), "[Function: Object]">>,
     <<Str(<<"_", "_", "p", "r", "o", "t", "o", "_", "_">>), "[Object: null prototype] {}">>}

NoStatus == [def |-> FALSE, val |-> ""]

\* s.replace(/^email\./, '')
StripEmailPrefix(s) ==
    IF StartsWith(s, Str(<<"e", "m", "a", "i", "l", ".">>)) THEN SubSeq(s, 7, Len(s)) ELSE s

\* EVENT_STATUS_ALIASES[lowered] ?? null
normalizeStatus(raw) ==
    LET lowered == StripEmailPrefix(Trim(ToLowerCase(raw)))
        found == {a \in EVENT_STATUS_ALIASES \cup ObjectPrototypeMembers : a[1] = lowered}
    IN  IF found = {} THEN NoStatus
        ELSE [def |-> TRUE, val |-> (CHOOSE a \in found : TRUE)[2]]

MESSAGE_ID_PATHS ==
    <<<<"data", "email_id">>, <<"data", "id">>, <<"data", "message_id">>,
      <<"data", "messageId">>, <<"email_id">>, <<"message_id">>, <<"messageId">>,
      <<"id">>>>

RECURSIVE getNestedValue(_, _)
getNestedValue(current, pathParts) ==
    IF pathParts = <<>> THEN current
    ELSE IF Falsy(current) \/ current.type # "object" THEN [type |-> "null", val |-> <<>>]
         ELSE getNestedValue(Member(current, Head(pathParts)), Tail(pathParts))

RECURSIVE FirstMessageId(_, _)
FirstMessageId(payload, paths) ==
    IF paths = <<>> THEN Null
    ELSE LET asString == readString(getNestedValue(payload, Head(paths)))
         IN  IF asString.def THEN asString ELSE FirstMessageId(payload, Tail(paths))

extractMessageId(payload) == FirstMessageId(payload, MESSAGE_ID_PATHS)

RECURSIVE FirstStatus(_)
FirstStatus(candidates) ==
    IF candidates = <<>> THEN NoStatus
    ELSE LET asString == readString(Head(candidates))
             normalized == IF asString.def THEN normalizeStatus(asString.val) ELSE NoStatus
         IN  IF normalized.def THEN normalized ELSE FirstStatus(Tail(candidates))

extractStatus(payload) ==
    FirstStatus(<<Member(payload, "type"), Member(payload, "event"),
                  Member(payload, "status")>>)

NoEvent == [def |-> FALSE, provider |-> "", messageId |-> Null, status |-> ""]

\* the event without its timestamp and its copy of the payload
buildWebhookEvent(payload) ==
    LET status == extractStatus(payload)
    IN  IF ~status.def THEN NoEvent
        ELSE [def |-> TRUE, provider |-> PROVIDER_NAME,
              messageId |-> extractMessageId(payload), status |-> status.val]

\* the raw body that express.json's verify kept, or none (no JSON body)
NoRawBody == [def |-> FALSE, val |-> <<>>]

RawBody(s) == [def |-> TRUE, val |-> s]

Answer(status, event, forward) == [status |-> status, event |-> event, forward |-> forward]

\* mutant of webhookProvider: an event without a recognized status is refused
webhookProvider_RefuseUnrecognized(env, request) ==
    IF env.webhookSecret = Unset THEN Answer(503, NoEvent, FALSE)
    ELSE IF ~request.rawBody.def \/ request.rawBody.val = <<>>
         THEN Answer(400, NoEvent, FALSE)
         ELSE LET verification ==
                      verifyResendSignature(env.webhookSecret, request.signatureHeader,
                                            request.rawBody.val,
                                            Some(WEBHOOK_TOLERANCE_SECONDS), Undefined,
                                            request.dateNow)
                  normalized == buildWebhookEvent(request.body)
              IN  IF ~verification.ok THEN Answer(401, NoEvent, FALSE)
                  ELSE IF ~normalized.def THEN Answer(422, NoEvent, FALSE)
                       ELSE Answer(204, normalized, postApiPayloadSends(env))

\* app.post('/webhooks/provider') of index.ts:480; forward tells whether
\* postApiPayload starts a fetch, which the handler does not wait for
webhookProvider(env, request) ==
    IF env.webhookSecret = Unset THEN Answer(503, NoEvent, FALSE)
    ELSE IF ~request.rawBody.def \/ request.rawBody.val = <<>>
         THEN Answer(400, NoEvent, FALSE)
         ELSE LET verification ==
                      verifyResendSignature(env.webhookSecret, request.signatureHeader,
                                            request.rawBody.val,
                                            Some(WEBHOOK_TOLERANCE_SECONDS), Undefined,
                                            request.dateNow)
                  normalized == buildWebhookEvent(request.body)
              IN  IF ~verification.ok THEN Answer(401, NoEvent, FALSE)
                  ELSE Answer(204, normalized, normalized.def /\ postApiPayloadSends(env))

\* app.post('/webhooks/provider') of index.ts:623
webhookProviderSecond(env, request) ==
    IF env.webhookSecret # Unset /\ request.emailWebhookSecret # SecretHeader(env.webhookSecret)
    THEN Answer(401, NoEvent, FALSE)
    ELSE Answer(204, NoEvent, FALSE)

(***************************************************************************)
(* The parts of the model at rest                                          *)
(***************************************************************************)
NoResult == [ok |-> FALSE, reason |-> "none", timestamp |-> Undefined]

NoHeader == [tag |-> "unsent", val |-> <<>>]

NoCall ==
    [op |-> "none", template |-> NoValue, ok |-> FALSE, error |-> "",
     read |-> FALSE, path |-> <<>>]

SigIdle == sigIn = [kind |-> "idle"] /\ sigOut = NoResult

TplIdle == disk = {} /\ allowedTemplates = {} /\ tplCall = NoCall

LimIdle ==
    /\ clock = 0
    /\ store = <<>>
    /\ inFlight = <<>>
    /\ window = <<>>
    /\ claimWindow = <<>>

NoConfig ==
    [apiSecret |-> Unset, apiBaseUrl |-> Unset, webhookSecret |-> Unset,
     resendKey |-> Unset, emailFrom |-> Unset]

NoHook == [handler |-> "none"]

EnvIdle == config = NoConfig

HookIdle == hook = NoHook /\ forwards = <<>> /\ downstream = {}

NoRequest == [handler |-> "none"]

NoId == [def |-> FALSE, val |-> ""]

NoPayload == [requestId |-> <<>>, providerMessageId |-> NoId, status |-> "", error |-> ""]

\* res before the handler has answered
NoResponse == [code |-> 0, status |-> "", messageId |-> NoId, error |-> ""]

NoContext ==
    [validated |-> NoValidated, path |-> <<>>, result |-> "none",
     response |-> NoResponse, forwarded |-> NoPayload]

NoValidation == [stage |-> "none"]

ValIdle == val = NoValidation

SendIdle ==
    /\ req = NoRequest
    /\ pc = "idle"
    /\ ctx = NoContext
    /\ res = NoResponse
    /\ trace = <<>>
    /\ served = 0

(***************************************************************************)
(* Signature verifier: one call, from the arguments to the result          *)
(***************************************************************************)
MaxSmallTimestamp == 2

LargeTimestamp == 1000

MaxSkew == 1

Secrets == {"test-secret", "wrong-secret"}

Payloads == {Str(<<"{", "}">>), Str(<<"a", ",", "v", "1", "=", "b">>)}

Timestamps == (-1..MaxSmallTimestamp) \cup {12, LargeTimestamp}

Tolerances == {Undefined, Some(0), Some(10)}

ToleranceOf(t) == IF t.def THEN t.val ELSE DEFAULT_TOLERANCE_SECONDS

\* the instants (ms) around the two edges of the tolerance window of timestamp ts
NowChoices(ts, tol) ==
    {Some((ts + side * ToleranceOf(tol) + d) * 1000 + frac) :
        side \in {-1, 1}, d \in (-MaxSkew)..MaxSkew, frac \in {0, 999}}
    \cup {Some(ts * 1000), Some(ts), Undefined}

\* headers no signer produced
ForgedHeaders(ts) ==
    {[tag |-> "undefined", val |-> <<>>],
     [tag |-> "string", val |-> <<>>],
     [tag |-> "array", val |-> <<>>],
     [tag |-> "string", val |-> Str(<<"t", "=">>) \o NumberToString(ts)],
     [tag |-> "string", val |-> Str(<<"v", "1", "=", "a", "b">>)],
     [tag |-> "string", val |-> Str(<<"t", "=", "x", ",", "v", "1", "=", "a", "b">>)],
     [tag |-> "string", val |-> Str(<<"t", "=">>) \o NumberToString(ts) \o Str(<<",", "v", "1", "=">>)],
     [tag |-> "string", val |-> Str(<<"t", "=">>) \o NumberToString(ts) \o Str(<<",", "v", "1", "=", "a", "b">>)],
     [tag |-> "string", val |-> Str(<<" ", "t", "=">>) \o NumberToString(ts)
                                  \o Str(<<" ", ",", "x", "=", "1", ",", " ", "v", "1", "=", "a", "b", " ">>)],
     [tag |-> "string", val |-> Str(<<"v", "1", "=", "a", "b", ",", "t", "=">>) \o NumberToString(ts)
                                  \o Str(<<"=", "9">>)]}

SigInit ==
    /\ sigIn \in {[secret |-> secret, signer |-> signer, timestamp |-> ts,
                   body |-> body, payload |-> payload, toleranceSeconds |-> tol,
                   now |-> now, dateNow |-> ts * 1000, kind |-> "none",
                   header |-> NoHeader] :
                    secret \in Secrets, signer \in Secrets, ts \in Timestamps,
                    body \in Payloads, payload \in Payloads, tol \in Tolerances,
                    now \in UNION {NowChoices(t, tol2) : t \in Timestamps, tol2 \in Tolerances}}
    /\ sigIn.now \in NowChoices(sigIn.timestamp, sigIn.toleranceSeconds)
    /\ sigOut = NoResult
    /\ TplIdle
    /\ LimIdle
    /\ EnvIdle
    /\ HookIdle
    /\ SendIdle
    /\ ValIdle

\* The sender signs sigIn.body at sigIn.timestamp with sigIn.signer
Sign ==
    /\ sigIn.kind = "none"
    /\ \E asArray \in BOOLEAN :
        LET h == createResendSignatureHeader(sigIn.signer, sigIn.timestamp, sigIn.body)
        IN  sigIn' = [sigIn EXCEPT !.kind = "signed",
                          !.header = IF asArray THEN [tag |-> "array", val |-> <<h>>]
                                     ELSE [tag |-> "string", val |-> h]]
    /\ UNCHANGED <<sigOut, notSig>>

\* A request arrives with a header that is not the work of createResendSignatureHeader
Forge ==
    /\ sigIn.kind = "none"
    /\ \E h \in ForgedHeaders(sigIn.timestamp) :
        sigIn' = [sigIn EXCEPT !.kind = "forged", !.header = h]
    /\ UNCHANGED <<sigOut, notSig>>

Verify ==
    /\ sigIn.kind \in {"signed", "forged"}
    /\ sigOut = NoResult
    /\ sigOut' = verifyResendSignature(sigIn.secret, sigIn.header, sigIn.payload,
                                       sigIn.toleranceSeconds, sigIn.now, sigIn.dateNow)
    /\ UNCHANGED <<sigIn, notSig>>

SigNext == Sign \/ Forge \/ Verify

SpecSig == SigInit /\ [][SigNext]_vars

(***************************************************************************)
(* Template registry and resolver: calls against a changing file system    *)
(***************************************************************************)
UnderTemplates(relative) == templatesDir \o relative

WelcomeFile == UnderTemplates(<<Str(<<"w", ".", "h", "t", "m", "l">>)>>)

NestedFile == UnderTemplates(<<Str(<<"a">>), Str(<<"r", ".", "h", "t", "m", "l">>)>>)

DoubleExtFile ==
    UnderTemplates(<<Str(<<"x", ".", "h", "t", "m", "l", ".", "h", "t", "m", "l">>)>>)

NotesFile == UnderTemplates(<<Str(<<"n", ".", "t", "x", "t">>)>>)

\* a file added under the templates root after startup
LateFile == UnderTemplates(<<Str(<<"l", ".", "h", "t", "m", "l">>)>>)

\* /app/s.html, a file beside the templates root
OutsideFile == <<Str(<<"a", "p", "p">>), Str(<<"s", ".", "h", "t", "m", "l">>)>>

StartupDisks ==
    {{WelcomeFile, NestedFile, DoubleExtFile, NotesFile, OutsideFile},
     {WelcomeFile, OutsideFile},
     {OutsideFile}}

ChangingFiles == {LateFile, WelcomeFile, OutsideFile}

LateName == StringValue(Str(<<"l">>))

TraversalName == StringValue(Str(<<".", ".", "/", "s">>))

TemplateInputs ==
    {NoValue, NumberValue, LateName, TraversalName,
     StringValue(<<>>),
     StringValue(Str(<<"w">>)),
     StringValue(Str(<<"w", ".", "h", "t", "m", "l">>)),
     StringValue(Str(<<"w", ".", "H", "T", "M", "L">>)),
     StringValue(Str(<<" ", "/", "w", " ">>)),
     StringValue(Str(<<"/", "/", "a", "/", "r">>)),
     StringValue(Str(<<"x", ".", "h", "t", "m", "l">>)),
     StringValue(Str(<<"x", ".", "h", "t", "m", "l", ".", "h", "t", "m", "l">>)),
     StringValue(Str(<<"a", "/", ".", ".", "/", "w">>)),
     StringValue(Str(<<".", "/", "w">>)),
     StringValue(Str(<<"n">>)),
     StringValue(Str(<<".", "h", "t", "m", "l">>))}

ValidTo == Str(<<"u", "@", "e", ".", "c">>)

ValidData == [type |-> "object", jsonLength |-> 2, utf8Bytes |-> 2]

ValidBody(template) ==
    [id |-> StringValue(Str(<<"r", "1">>)), channel |-> CHANNEL_EMAIL,
     template |-> template, to |-> StringValue(ValidTo), subject |-> NoValue,
     data |-> ValidData, metadata |-> "undefined"]

CallRecord(op, template, ok, error, read, path) ==
    [op |-> op, template |-> template, ok |-> ok, error |-> error,
     read |-> read, path |-> path]

TplInit ==
    /\ disk \in StartupDisks
    /\ allowedTemplates = safeDiscoverTemplates(disk, templatesDir)
    /\ tplCall = NoCall
    /\ SigIdle
    /\ LimIdle
    /\ EnvIdle
    /\ HookIdle
    /\ SendIdle
    /\ ValIdle

AddFile ==
    \E f \in ChangingFiles \ disk :
        /\ disk' = disk \cup {f}
        /\ UNCHANGED <<allowedTemplates, tplCall, notTpl>>

RemoveFile ==
    \E f \in ChangingFiles \cap disk :
        /\ disk' = disk \ {f}
        /\ UNCHANGED <<allowedTemplates, tplCall, notTpl>>

ResolveTemplatePath ==
    \E template \in TemplateInputs :
        LET r == resolveTemplatePath(template, allowedTemplates)
        IN  /\ tplCall' = CallRecord("resolveTemplatePath", template, r.ok, r.error,
                                     FALSE, r.value)
            /\ UNCHANGED <<disk, allowedTemplates, notTpl>>

LoadTemplate ==
    \E template \in TemplateInputs :
        LET r == loadTemplate(template, allowedTemplates, disk)
        IN  /\ tplCall' = CallRecord("loadTemplate", template, r.ok, r.error, r.read, r.path)
            /\ UNCHANGED <<disk, allowedTemplates, notTpl>>

\* the second /send handler calls it with body.template, which it requires truthy
LoadTemplateSecond ==
    \E template \in {t \in TemplateInputs : ~Falsy(t)} :
        LET r == loadTemplateSecond(template, disk)
        IN  /\ tplCall' = CallRecord("loadTemplateSecond", template, r.ok, r.error,
                                     r.read, r.path)
            /\ UNCHANGED <<disk, allowedTemplates, notTpl>>

ValidateSendRequest ==
    \E template \in TemplateInputs :
        LET r == validateSendRequest(ValidBody(template), allowedTemplates)
        IN  /\ tplCall' = CallRecord("validateSendRequest", template, r.ok, r.error,
                                     FALSE, r.value.templateName)
            /\ UNCHANGED <<disk, allowedTemplates, notTpl>>

TplNext ==
    \/ AddFile
    \/ RemoveFile
    \/ ResolveTemplatePath
    \/ LoadTemplate
    \/ LoadTemplateSecond
    \/ ValidateSendRequest

SpecTemplate == TplInit /\ [][TplNext]_vars


(***************************************************************************)
(* The rate limiter under concurrent /send requests                        *)
(***************************************************************************)
MaxInFlight == 2

MaxTicks == 2

\* the clock moves by half a window
TickMs == SEND_WINDOW_MS \div 2

MaxOverLimit == 1


Addresses == {"10.0.0.1"}

SecretHeaders == {NoSecretHeader, SecretHeader(""), SecretHeader("good-secret")}

\* the requests told apart by the limiter: the secret header and the client address
LimiterRequests == {[header |-> h, ip |-> ip] : h \in SecretHeaders, ip \in Addresses}

KeyOf(r) == keyGenerator(r.header, r.ip)

LimiterKeys == {KeyOf(r) : r \in LimiterRequests}

\* the key as the specification words it: 'secret:<value>' whenever the header is
\* present, the client address otherwise
SpecKeyOf(r) == IF r.header.present THEN <<"secret:", r.header.val>> ELSE <<"ip", r.ip>>

SpecKeys == {SpecKeyOf(r) : r \in LimiterRequests}

\* refusedBefore: the window before this one refused a request
NoWindow == [start |-> -1, requests |-> 0, admitted |-> 0, refusedBefore |-> FALSE]

LimInit ==
    /\ clock = 0
    /\ store = [k \in LimiterKeys |-> NoClient]
    /\ inFlight = [r \in LimiterRequests |-> 0]
    /\ window = [k \in LimiterKeys |-> NoWindow]
    /\ claimWindow = [k \in SpecKeys |-> NoWindow]
    /\ SigIdle
    /\ TplIdle
    /\ EnvIdle
    /\ HookIdle
    /\ SendIdle
    /\ ValIdle

\* the window of the key as the caller sees it: it starts with the first request
\* after the one before has run its SEND_WINDOW_MS
WindowAt(w, dateNow) ==
    IF w.start < 0 \/ dateNow >= w.start + SEND_WINDOW_MS
    THEN [start |-> dateNow, requests |-> 0, admitted |-> 0,
          refusedBefore |-> w.admitted < w.requests]
    ELSE w

Count(w, admitted) ==
    [w EXCEPT !.requests = @ + 1, !.admitted = @ + (IF admitted THEN 1 ELSE 0)]

RECURSIVE SumOver(_, _)
SumOver(f, S) ==
    IF S = {} THEN 0
    ELSE LET x == CHOOSE y \in S : TRUE IN f[x] + SumOver(f, S \ {x})

PendingFor(key) == SumOver(inFlight, {r \in LimiterRequests : KeyOf(r) = key})

\* the hits of the key's running window
LiveHits(key) == IF store[key].resetTime <= clock THEN 0 ELSE store[key].totalHits

\* the requests of the key's running window, those inside the middleware included
Load(key) == LiveHits(key) + PendingFor(key)

\* The bursts explored: a key's window takes at most MaxOverLimit requests past
\* the limit; while one key is in a burst (two requests or more) another key takes
\* one request at most; one request with an empty header.
MayArrive(r) ==
    /\ Load(KeyOf(r)) < SEND_RATE_LIMIT + MaxOverLimit
    /\ Load(KeyOf(r)) = 0 \/ \A k \in LimiterKeys \ {KeyOf(r)} : Load(k) < 2
    /\ r.header = SecretHeader("") =>
            (inFlight[r] = 0 /\ claimWindow[SpecKeyOf(r)].start < 0)

\* A /send request enters the middleware, which runs keyGenerator and awaits the
\* store; inFlight counts the requests waiting there
Arrive ==
    \E r \in LimiterRequests :
        /\ SumOver(inFlight, LimiterRequests) < MaxInFlight
        /\ MayArrive(r)
        /\ inFlight' = [inFlight EXCEPT ![r] = @ + 1]
        /\ UNCHANGED <<clock, store, window, claimWindow, notLim>>

\* store.increment(key), then next() or the 429 handler
Decide ==
    \E r \in LimiterRequests :
        LET key == KeyOf(r)
            client == increment(store[key], clock)
            admitted == ~LimitExceeded(client.totalHits)
        IN  /\ inFlight[r] > 0
            /\ store' = [store EXCEPT ![key] = client]
            /\ window' = [window EXCEPT ![key] = Count(WindowAt(@, clock), admitted)]
            /\ claimWindow' = [claimWindow EXCEPT
                                ![SpecKeyOf(r)] = Count(WindowAt(@, clock), admitted)]
            /\ inFlight' = [inFlight EXCEPT ![r] = @ - 1]
            /\ UNCHANGED <<clock, notLim>>

Tick ==
    /\ clock + TickMs <= MaxTicks * TickMs
    /\ clock' = clock + TickMs
    /\ UNCHANGED <<store, inFlight, window, claimWindow, notLim>>

LimNext == Arrive \/ Decide \/ Tick

SpecLimiter == LimInit /\ [][LimNext]_vars


(***************************************************************************)
(* The provider webhook: requests, answers and the forwards left in flight *)
(***************************************************************************)
MaxForwards == 1

HookTimestamp == 1000

WebhookSecrets == {Unset, "test-secret"}

\* (raw body, express.json's parse of it)
HookBodies ==
    {[raw |-> Str(<<"{", "\"", "t", "y", "p", "e", "\"", ":", "\"", "E", "m", "a", "i", "l", ".", "S", "e", "n", "t", "\"", ",", "\"", "s", "t", "a", "t", "u", "s", "\"", ":", "\"", "f", "a", "i", "l", "e", "d", "\"", ",", "\"", "i", "d", "\"", ":", "\"", "m", "1", "\"", "}">>),
      json |-> Object([type |-> StringValue(Str(<<"E", "m", "a", "i", "l", ".", "S", "e", "n", "t">>)),
                       status |-> StringValue(Str(<<"f", "a", "i", "l", "e", "d">>)),
                       id |-> StringValue(Str(<<"m", "1">>))])],
     [raw |-> Str(<<"{", "\"", "t", "y", "p", "e", "\"", ":", "7", ",", "\"", "e", "v", "e", "n", "t", "\"", ":", "\"", "e", "m", "a", "i", "l", ".", "c", "l", "i", "c", "k", "e", "d", "\"", ",", "\"", "s", "t", "a", "t", "u", "s", "\"", ":", "\"", " ", "B", "o", "u", "n", "c", "e", "d", "\"", "}">>),
      json |-> Object([type |-> NumberValue,
                       event |-> StringValue(Str(<<"e", "m", "a", "i", "l", ".", "c", "l", "i", "c", "k", "e", "d">>)),
                       status |-> StringValue(Str(<<" ", "B", "o", "u", "n", "c", "e", "d">>))])],
     [raw |-> Str(<<"{", "\"", "t", "y", "p", "e", "\"", ":", "\"", "e", "m", "a", "i", "l", ".", "o", "p", "e", "n", "e", "d", "\"", "}">>),
      json |-> Object([type |-> StringValue(Str(<<"e", "m", "a", "i", "l", ".", "o", "p", "e", "n", "e", "d">>))])],
     [raw |-> Str(<<"{", "\"", "s", "t", "a", "t", "u", "s", "\"", ":", "\"", "c", "o", "n", "s", "t", "r", "u", "c", "t", "o", "r", "\"", "}">>),
      json |-> Object([status |-> StringValue(Str(<<"c", "o", "n", "s", "t", "r", "u", "c", "t", "o", "r">>))])],
     [raw |-> Str(<<"[", "7", "]">>),
      json |-> Object([length |-> NumberValue])]}

NoSignatureHeader == [tag |-> "undefined", val |-> <<>>]

\* a body that is none of HookBodies
OtherBody == Str(<<"{", "}">>)

\* resend-signature headers for a body: none, the sender's, one made with another
\* secret, the sender's for another body
HookHeaders(raw) ==
    {NoSignatureHeader}
    \cup {[tag |-> "string", val |-> createResendSignatureHeader(secret, HookTimestamp, raw)] :
            secret \in {"test-secret", "wrong-secret"}}
    \cup {[tag |-> "string",
           val |-> createResendSignatureHeader("test-secret", HookTimestamp, OtherBody)]}

\* Date.now() at the handler: before, inside and at the far edge of the tolerance
\* window of HookTimestamp
HookNows ==
    {(HookTimestamp - WEBHOOK_TOLERANCE_SECONDS) * 1000 - 1,
     HookTimestamp * 1000,
     (HookTimestamp + WEBHOOK_TOLERANCE_SECONDS) * 1000 + 999}

HookRequest(handler, rawBody, body, signatureHeader, emailWebhookSecret, dateNow) ==
    [handler |-> handler, rawBody |-> rawBody, body |-> body,
     signatureHeader |-> signatureHeader, emailWebhookSecret |-> emailWebhookSecret,
     dateNow |-> dateNow]

\* without a JSON body express.json leaves no rawBody and an empty req.body
FirstRequests ==
    UNION {{HookRequest("first", RawBody(b.raw), b.json, h, NoSecretHeader, n) :
                h \in HookHeaders(b.raw), n \in HookNows} : b \in HookBodies}
    \cup {HookRequest("first", NoRawBody, Object([length |-> NumberValue]), h, NoSecretHeader,
                      HookTimestamp * 1000) : h \in HookHeaders(OtherBody)}

OpenedBody == CHOOSE b \in HookBodies : b.json = Object([type |-> StringValue(Str(<<"e", "m", "a", "i", "l", ".", "o", "p", "e", "n", "e", "d">>))])

SecondRequests ==
    {HookRequest("second", RawBody(OpenedBody.raw), OpenedBody.json, h, s,
                 HookTimestamp * 1000) :
        h \in {NoSignatureHeader,
               [tag |-> "string",
                val |-> createResendSignatureHeader("test-secret", HookTimestamp,
                                                    OpenedBody.raw)]},
        s \in {NoSecretHeader, SecretHeader("test-secret"), SecretHeader("wrong-secret")}}

\* history: the request carried a signature header that verifies against the
\* configured secret: header present, timestamp within tolerance, signature equal
\* to the HMAC of '<t>.<rawBody>'
Trusted(env, request) ==
    LET parsed == parseResendSignatureHeader(request.signatureHeader)
    IN  /\ env.webhookSecret # Unset
        /\ request.rawBody.def
        /\ parsed.ok
        /\ ~OutsideTolerance(request.dateNow \div 1000, parsed.timestamp,
                             WEBHOOK_TOLERANCE_SECONDS)
        /\ parsed.signature
               = << <<"hmac-sha256", env.webhookSecret,
                      NumberToString(parsed.timestamp) \o Str(<<".">>) \o request.rawBody.val>> >>

HookInit ==
    /\ config \in {[NoConfig EXCEPT !.webhookSecret = w, !.apiSecret = a, !.apiBaseUrl = u] :
                    w \in WebhookSecrets, a \in {Unset, "good-secret"},
                    u \in {Unset, "http://api"}}
    /\ hook = NoHook
    /\ forwards = <<>>
    /\ downstream = {}
    /\ SigIdle
    /\ TplIdle
    /\ LimIdle
    /\ SendIdle
    /\ ValIdle

Handled(request, answer) ==
    [handler |-> request.handler, request |-> request, status |-> answer.status,
     event |-> answer.event, forward |-> answer.forward]

WebhookProvider ==
    \E request \in FirstRequests :
        LET answer == webhookProvider(config, request)
        IN  /\ answer.forward => Len(forwards) < MaxForwards
            /\ hook' = Handled(request, answer)
            /\ forwards' = IF answer.forward
                           THEN Append(forwards, [path |-> API_EVENTS_PATH,
                                                  payload |-> answer.event,
                                                  trusted |-> Trusted(config, request)])
                           ELSE forwards
            /\ UNCHANGED <<downstream, config, notHook>>

WebhookProviderSecond ==
    \E request \in SecondRequests :
        LET answer == webhookProviderSecond(config, request)
        IN  /\ hook' = Handled(request, answer)
            /\ UNCHANGED <<forwards, downstream, config, notHook>>

Settle(i) == SubSeq(forwards, 1, i - 1) \o SubSeq(forwards, i + 1, Len(forwards))

\* the downstream API answers the fetch with a 2xx status
ForwardAccepted ==
    \E i \in 1..Len(forwards) :
        /\ downstream' = downstream \cup {[path |-> forwards[i].path,
                                           payload |-> forwards[i].payload]}
        /\ forwards' = Settle(i)
        /\ UNCHANGED <<hook, config, notHook>>

\* the fetch ends otherwise: another status, a network error, or the abort after
\* API_REQUEST_TIMEOUT_MS; postApiPayload logs a warning and that is all
ForwardFailed ==
    \E i \in 1..Len(forwards), how \in {"status", "error", "abort"} :
        /\ forwards' = Settle(i)
        /\ UNCHANGED <<hook, downstream, config, notHook>>

HookNext == WebhookProvider \/ WebhookProviderSecond \/ ForwardAccepted \/ ForwardFailed

SpecWebhook == HookInit /\ [][HookNext]_vars

(***************************************************************************)
(* POST /send: one request at a time through the limiter, the handler and   *)
(* its awaits (readFile, resend.emails.send, postApiPayload's fetch)       *)
(***************************************************************************)
MaxRequests == 2

\* SendResponse of contracts/send.ts with the HTTP status (id and provider left out)
SendResponse(code, status, messageId, error) ==
    [code |-> code, status |-> status, messageId |-> messageId, error |-> error]

\* res.status(code).json({ error })
ErrorResponse(code, error) == SendResponse(code, "", NoId, error)

\* ApiMessagePayload: the fields that tell one forward from another
MessagePayload(validated, messageId, status, error) ==
    [requestId |-> validated.id, providerMessageId |-> messageId, status |-> status,
     error |-> error]

\* what resend.emails.send settles with: { data: { id } }, { data: null, error },
\* or a rejection
ProviderResults == {"data", "error", "throw"}

\* (result as any)?.data?.id
MessageIdOf(result) == IF result = "data" THEN [def |-> TRUE, val |-> "msg-1"] ELSE NoId

SendHeaders == {NoSecretHeader, SecretHeader("good-secret"), SecretHeader("bad-secret")}

ClientAddress == "10.0.0.1"

SendKeys == {keyGenerator(h, ClientAddress) : h \in SendHeaders}

WelcomeBody == ValidBody(StringValue(Str(<<"w">>)))

SendBodies ==
    {WelcomeBody,
     ValidBody(StringValue(Str(<<"x", ".", "h", "t", "m", "l", ".", "h", "t", "m", "l">>))),
     ValidBody(TraversalName),
     ValidBody(NumberValue),
     [WelcomeBody EXCEPT !.id = NoValue],
     [WelcomeBody EXCEPT !.channel = "sms"],
     [WelcomeBody EXCEPT !.to = StringValue(Str(<<"u">>))],
     [WelcomeBody EXCEPT !.data = [type |-> "null", jsonLength |-> 4, utf8Bytes |-> 4]]}

SendDisks ==
    {{WelcomeFile, NestedFile, DoubleExtFile, NotesFile, OutsideFile}, {OutsideFile}}

Init ==
    /\ config \in {[NoConfig EXCEPT !.apiSecret = a, !.apiBaseUrl = u, !.resendKey = k,
                                    !.emailFrom = "noreply@intellex"] :
                    a \in {Unset, "good-secret"}, u \in {Unset, "http://api"},
                    k \in {Unset, "re_key"}}
    /\ disk \in SendDisks
    /\ allowedTemplates = safeDiscoverTemplates(disk, templatesDir)
    /\ tplCall = NoCall
    /\ clock = 0
    /\ \E hits \in {0, SEND_RATE_LIMIT - 1} :
        store = [k \in SendKeys |->
                    IF hits = 0 THEN NoClient
                    ELSE [totalHits |-> hits, resetTime |-> SEND_WINDOW_MS]]
    /\ inFlight = <<>>
    /\ window = <<>>
    /\ claimWindow = <<>>
    /\ SigIdle
    /\ HookIdle
    /\ SendIdle
    /\ ValIdle

\* a request reaches one of the two app.post('/send') definitions of the file
Receive ==
    /\ pc \in {"idle", "done"}
    /\ served < MaxRequests
    /\ \E handler \in {"first", "second"}, header \in SendHeaders, body \in SendBodies :
        /\ req' = [handler |-> handler, header |-> header, ip |-> ClientAddress,
                   body |-> body]
        /\ pc' = IF handler = "first" THEN "limiter" ELSE "handler"
    /\ ctx' = NoContext
    /\ res' = NoResponse
    /\ trace' = <<>>
    /\ served' = served + 1
    /\ UNCHANGED <<store, disk, allowedTemplates, forwards, downstream, notSend>>

\* the sendLimiter middleware: count the request, then next() or the 429 handler
SendLimiter ==
    /\ pc = "limiter"
    /\ LET key == keyGenerator(req.header, req.ip)
           client == increment(store[key], clock)
       IN  /\ store' = [store EXCEPT ![key] = client]
           /\ IF LimitExceeded(client.totalHits)
              THEN /\ res' = ErrorResponse(429, "Too many requests")
                   /\ trace' = <<"limiter:reject">>
                   /\ pc' = "done"
              ELSE /\ res' = res
                   /\ trace' = <<"limiter:admit">>
                   /\ pc' = "handler"
    /\ UNCHANGED <<req, ctx, served, disk, allowedTemplates, forwards, downstream, notSend>>

\* the handler answers and returns
Respond(events, response) ==
    /\ res' = response
    /\ pc' = "done"
    /\ trace' = events
    /\ UNCHANGED <<ctx, forwards>>

\* await postApiPayload(API_MESSAGES_PATH, payload), then the response; without
\* the forwarding settings postApiPayload returns at once
Conclude(events, context, response, payload) ==
    IF postApiPayloadSends(config)
    THEN /\ forwards' = Append(forwards, [path |-> API_MESSAGES_PATH, payload |-> payload])
         /\ ctx' = [context EXCEPT !.response = response, !.forwarded = payload]
         /\ trace' = events \o <<"forward">>
         /\ pc' = "forward"
         /\ res' = res
    ELSE /\ res' = response
         /\ ctx' = context
         /\ trace' = events
         /\ pc' = "done"
         /\ forwards' = forwards

\* the catch branch of the handler that serves req
Catch(events, context, message) ==
    IF req.handler = "first"
    THEN Conclude(events, context, SendResponse(500, "failed", NoId, message),
                  MessagePayload(context.validated, NoId, "failed", message))
    ELSE /\ res' = SendResponse(500, "failed", NoId, message)
         /\ ctx' = context
         /\ trace' = events
         /\ pc' = "done"
         /\ forwards' = forwards

\* index.ts:381, from the first line of the handler to its first await
PostSend ==
    /\ pc = "handler"
    /\ req.handler = "first"
    /\ LET validation == validateSendRequest(req.body, allowedTemplates)
           resolution == resolveTemplatePath(StringValue(validation.value.templateName),
                                             allowedTemplates)
           context == [ctx EXCEPT !.validated = validation.value,
                                  !.path = resolution.value]
           passed == trace \o <<"auth:ok", "validate:ok">>
       IN  IF config.apiSecret = Unset
           THEN Respond(trace \o <<"auth:unconfigured">>,
                        ErrorResponse(503, "COMMUNICATIONS_API_SECRET not configured"))
           ELSE IF req.header # SecretHeader(config.apiSecret)
           THEN Respond(trace \o <<"auth:refused">>,
                        ErrorResponse(401, "Invalid or missing secret"))
           ELSE IF allowedTemplates = {}
           THEN Respond(trace \o <<"auth:ok">>, ErrorResponse(503, "No templates available"))
           ELSE IF ~validation.ok
           THEN Respond(trace \o <<"auth:ok", "validate:refused">>,
                        ErrorResponse(400, validation.error))
           ELSE IF config.resendKey = Unset \/ config.emailFrom = Unset
           THEN /\ res' = SendResponse(503, "failed", NoId,
                                       "EMAIL_PROVIDER_KEY and EMAIL_FROM must be configured")
                /\ ctx' = [ctx EXCEPT !.validated = validation.value]
                /\ trace' = passed
                /\ pc' = "done"
                /\ forwards' = forwards
           ELSE IF ~resolution.ok
           THEN Catch(passed, [ctx EXCEPT !.validated = validation.value], resolution.error)
           ELSE /\ ctx' = context
                /\ trace' = passed \o <<"readFile">>
                /\ pc' = "readFile"
                /\ UNCHANGED <<res, forwards>>
    /\ UNCHANGED <<req, served, store, disk, allowedTemplates, downstream, notSend>>

\* index.ts:566, from the first line of the handler to its first await
PostSendSecond ==
    /\ pc = "handler"
    /\ req.handler = "second"
    /\ LET body == req.body
           resolution == normalizeTemplatePath(body.template)
       IN  IF Falsy(body.id) \/ body.channel \in {"", "undefined"} \/ Falsy(body.template)
              \/ Falsy(body.to)
           THEN Respond(trace, ErrorResponse(400, "id, channel, template, and to are required"))
           ELSE IF body.channel # "email"
           THEN Respond(trace, SendResponse(400, "failed", NoId,
                                            UnsupportedChannel(body.channel)))
           ELSE IF config.resendKey = Unset \/ config.emailFrom = Unset
           THEN Respond(trace, SendResponse(503, "failed", NoId,
                                 "EMAIL_PROVIDER_KEY and EMAIL_FROM must be configured"))
           ELSE IF ~resolution.ok
           THEN Catch(trace, ctx, resolution.error)
           ELSE /\ ctx' = [ctx EXCEPT !.path = resolution.value]
                /\ trace' = trace \o <<"readFile">>
                /\ pc' = "readFile"
                /\ UNCHANGED <<res, forwards>>
    /\ UNCHANGED <<req, served, store, disk, allowedTemplates, downstream, notSend>>

\* readFile settles; with the file's text the handler calls resend.emails.send
ReadFileSettled ==
    /\ pc = "readFile"
    /\ IF ctx.path \in disk
       THEN /\ trace' = trace \o <<"providerSend">>
            /\ pc' = "send"
            /\ UNCHANGED <<res, ctx, forwards>>
       ELSE Catch(trace, ctx, "ENOENT")
    /\ UNCHANGED <<req, served, store, disk, allowedTemplates, downstream, notSend>>

\* resend.emails.send settles
ProviderSettled ==
    /\ pc = "send"
    /\ \E result \in ProviderResults :
        LET context == [ctx EXCEPT !.result = result]
            sent == SendResponse(200, "sent", MessageIdOf(result), "")
        IN  IF result = "throw" THEN Catch(trace, context, "provider request failed")
            ELSE IF req.handler = "first"
            THEN Conclude(trace, context, sent,
                          MessagePayload(context.validated, MessageIdOf(result), "sent", ""))
            ELSE /\ res' = sent
                 /\ ctx' = context
                 /\ trace' = trace
                 /\ pc' = "done"
                 /\ forwards' = forwards
    /\ UNCHANGED <<req, served, store, disk, allowedTemplates, downstream, notSend>>

\* the fetch of postApiPayload settles (2xx, another status, a network error, the
\* abort after API_REQUEST_TIMEOUT_MS) and the handler sends the response it held
ForwardSettled ==
    /\ pc = "forward"
    /\ \E how \in {"ok", "status", "error", "abort"} :
        downstream' = IF how = "ok" THEN downstream \cup {Head(forwards)} ELSE downstream
    /\ forwards' = Tail(forwards)
    /\ res' = ctx.response
    /\ pc' = "done"
    /\ UNCHANGED <<req, ctx, trace, served, store, disk, allowedTemplates, notSend>>

\* a template file is removed after the startup scan
UnlinkTemplate ==
    /\ WelcomeFile \in disk
    /\ disk' = disk \ {WelcomeFile}
    /\ UNCHANGED <<allowedTemplates, store, forwards, downstream, sendVars, notSend>>

Next ==
    \/ Receive
    \/ SendLimiter
    \/ PostSend
    \/ PostSendSecond
    \/ ReadFileSettled
    \/ ProviderSettled
    \/ ForwardSettled
    \/ UnlinkTemplate

Spec == Init /\ [][Next]_vars

(***************************************************************************)
(* validateSendRequest on one body, then loadTemplate on what it returned  *)
(***************************************************************************)
Repeat(c, n) == [i \in 1..n |-> <<c>>]

\* body.data = {"k": "<text>"}, the text made of ASCII letters and of letters
\* such as U+00E9 (one UTF-16 code unit, two UTF-8 bytes): JSON.stringify puts
\* 8 characters around the text
ObjectData(asciiChars, accentedChars) ==
    [type |-> "object", jsonLength |-> 8 + asciiChars + accentedChars,
     utf8Bytes |-> 8 + asciiChars + 2 * accentedChars]

IdInputs ==
    {StringValue(Str(<<"r", "1">>)), NoValue, NumberValue, StringValue(Str(<<" ", " ">>)),
     StringValue(Str(<<" ">>) \o Repeat("i", MAX_ID_LENGTH) \o Str(<<" ">>)),
     StringValue(Repeat("i", MAX_ID_LENGTH + 1))}

ChannelInputs == {CHANNEL_EMAIL, "sms", "undefined"}

ValTemplateInputs ==
    {StringValue(Str(<<"w">>)), StringValue(Str(<<" ", "/", "w", " ">>)),
     StringValue(Str(<<"x", ".", "h", "t", "m", "l", ".", "h", "t", "m", "l">>)), StringValue(Str(<<"n">>)), NoValue, TraversalName}

ToInputs ==
    {StringValue(ValidTo), NoValue, NumberValue, StringValue(Str(<<"u">>)),
     StringValue(Repeat("u", 317) \o Str(<<"@", "e", ".", "c">>))}

SubjectInputs ==
    {NoValue, NumberValue, StringValue(Str(<<"H", "i">>)), StringValue(Str(<<" ", " ">>)),
     StringValue(Repeat("s", MAX_SUBJECT_LENGTH + 1))}

DataInputs ==
    {ObjectData(0, 0),
     [type |-> "null", jsonLength |-> 4, utf8Bytes |-> 4],
     [type |-> "string", jsonLength |-> 3, utf8Bytes |-> 3],
     ObjectData(MAX_DATA_BYTES - 9, 0),
     ObjectData(MAX_DATA_BYTES - 8, 0),
     ObjectData(MAX_DATA_BYTES - 7, 0),
     ObjectData(MAX_DATA_BYTES - 11, 1),
     ObjectData(0, MAX_DATA_BYTES \div 2)}

ValDisk == {WelcomeFile, NestedFile, DoubleExtFile, NotesFile, OutsideFile}

\* x.html, a template whose name is what is left of x.html.html's after one suffix
PlainFile == UnderTemplates(<<Str(<<"x", ".", "h", "t", "m", "l">>)>>)

ValDisks == {ValDisk, ValDisk \cup {PlainFile}}

ValInit ==
    /\ val \in {[stage |-> "body",
                 body |-> [id |-> id, channel |-> channel, template |-> template, to |-> to,
                           subject |-> subject, data |-> data, metadata |-> "undefined"]] :
                    id \in IdInputs, channel \in ChannelInputs, template \in ValTemplateInputs,
                    to \in ToInputs, subject \in SubjectInputs, data \in DataInputs}
    /\ disk \in ValDisks
    /\ allowedTemplates = safeDiscoverTemplates(disk, templatesDir)
    /\ tplCall = NoCall
    /\ SigIdle
    /\ LimIdle
    /\ EnvIdle
    /\ HookIdle
    /\ SendIdle

notVal == <<sigVars, tplVars, limVars, envVars, hookVars, sendVars>>

\* index.ts:408, validated = validateSendRequest(body)
Validate ==
    /\ val.stage = "body"
    /\ val' = [stage |-> "validated", body |-> val.body,
               result |-> validateSendRequest(val.body, allowedTemplates)]
    /\ UNCHANGED notVal

\* index.ts:428, loadTemplate(validated.templateName, validated.data)
LoadValidated ==
    /\ val.stage = "validated"
    /\ val.result.ok
    /\ val' = [stage |-> "loaded", body |-> val.body, result |-> val.result,
               load |-> loadTemplate(StringValue(val.result.value.templateName),
                                     allowedTemplates, disk)]
    /\ UNCHANGED notVal

ValNext == Validate \/ LoadValidated

SpecValidate == ValInit /\ [][ValNext]_vars

(***************************************************************************)
(* One address sending /send requests without the valid secret             *)
(***************************************************************************)
ValidSecret == "good-secret"

\* the x-communications-secret values the caller tries
FloodHeaders == {NoSecretHeader, SecretHeader("guess-1"), SecretHeader("guess-2")}

FloodKeys == {keyGenerator(h, ClientAddress) : h \in FloodHeaders}

FloodInit ==
    /\ config = [NoConfig EXCEPT !.apiSecret = ValidSecret]
    /\ clock = 0
    /\ store = [k \in FloodKeys |-> NoClient]
    /\ window = [k \in FloodKeys |-> NoWindow]
    /\ inFlight = <<>>
    /\ claimWindow = <<>>
    /\ SigIdle
    /\ TplIdle
    /\ HookIdle
    /\ SendIdle
    /\ ValIdle

\* sendLimiter, then the handler up to its answer: 429 from the limiter, or
\* 401 from the comparison of the header with apiSecret (index.ts:388-392)
FloodSend ==
    \E header \in FloodHeaders :
        LET key == keyGenerator(header, ClientAddress)
            client == increment(store[key], clock)
            admitted == ~LimitExceeded(client.totalHits)
        IN  /\ client.totalHits <= SEND_RATE_LIMIT + MaxOverLimit
            /\ store' = [store EXCEPT ![key] = client]
            /\ window' = [window EXCEPT ![key] = Count(WindowAt(@, clock), admitted)]
            /\ req' = [handler |-> "first", header |-> header, ip |-> ClientAddress,
                       body |-> WelcomeBody]
            /\ res' = IF ~admitted THEN ErrorResponse(429, "Too many requests")
                      ELSE IF config.apiSecret = Unset
                      THEN ErrorResponse(503, "COMMUNICATIONS_API_SECRET not configured")
                      ELSE IF header # SecretHeader(config.apiSecret)
                      THEN ErrorResponse(401, "Invalid or missing secret")
                      ELSE NoResponse
            /\ trace' = IF admitted THEN <<"limiter:admit", "auth:refused">>
                        ELSE <<"limiter:reject">>
            /\ pc' = "done"
            /\ UNCHANGED <<ctx, served, val, config, clock, inFlight, claimWindow, sigVars,
                           tplVars, hookVars>>

FloodNext == FloodSend

SpecFlood == FloodInit /\ [][FloodNext]_vars

(***************************************************************************)
(* Claims about the signature verifier (checked under SpecSig)             *)
(***************************************************************************)
Verified == sigOut # NoResult

\* the header is the signer's, made with the verifier's secret over the verified body
GenuineCall ==
    /\ Verified
    /\ sigIn.kind = "signed"
    /\ sigIn.signer = sigIn.secret
    /\ sigIn.body = sigIn.payload

SigNowSeconds == (IF sigIn.now.def THEN sigIn.now.val ELSE sigIn.dateNow) \div 1000

SigSkew ==
    IF SigNowSeconds < sigIn.timestamp THEN sigIn.timestamp - SigNowSeconds
    ELSE SigNowSeconds - sigIn.timestamp

Accepted == [ok |-> TRUE, reason |-> "", timestamp |-> Some(sigIn.timestamp)]

\* C1 as stated: the header made by createResendSignatureHeader(secret, timestamp,
\* body), verified with the same secret and body and with now equal to the
\* timestamp, is accepted (ok = true, and that timestamp is reported).
C1_RoundTripNowIsTimestamp ==
    (GenuineCall /\ sigIn.now = Some(sigIn.timestamp)) => sigOut = Accepted

\* C1 as amended: the same round trip with now equal to the timestamp's instant
\* in milliseconds (timestamp * 1000) is accepted, for every tolerance >= 0.
C1_RoundTripNowIsTimestampMs ==
    (GenuineCall /\ sigIn.now = Some(sigIn.timestamp * 1000)) => sigOut = Accepted

C1_Witness ==
    /\ GenuineCall
    /\ sigIn.now = Some(sigIn.timestamp * 1000)
    /\ sigIn.timestamp = LargeTimestamp
    /\ sigIn.toleranceSeconds = Some(0)
    /\ sigOut.ok

\* C2: whenever the header parses to a timestamp t and |now_seconds - t| exceeds
\* the tolerance (default 300), in the past or in the future, the result is
\* ok = false with reason 'signature timestamp outside tolerance', whether or not
\* the signature is correct.
C2_ReplayWindow ==
    Verified =>
        LET parsed == parseResendSignatureHeader(sigIn.header)
            skew == IF SigNowSeconds < parsed.timestamp
                    THEN parsed.timestamp - SigNowSeconds
                    ELSE SigNowSeconds - parsed.timestamp
            rejected == [ok |-> FALSE, reason |-> "signature timestamp outside tolerance",
                         timestamp |-> Some(parsed.timestamp)]
        IN  /\ (parsed.ok /\ skew > ToleranceOf(sigIn.toleranceSeconds)) => sigOut = rejected
            /\ (sigIn.kind = "signed" /\ SigSkew > ToleranceOf(sigIn.toleranceSeconds))
                    => (parsed.ok /\ parsed.timestamp = sigIn.timestamp /\ sigOut = rejected)

\* a correctly signed header whose timestamp lies in the future beyond the tolerance
C2_Witness ==
    /\ GenuineCall
    /\ sigIn.timestamp - SigNowSeconds > ToleranceOf(sigIn.toleranceSeconds)
    /\ sigOut.reason = "signature timestamp outside tolerance"

\* C3: a header signed with another secret than the verifier's (same timestamp
\* and body, timestamp within tolerance) gives ok = false, 'signature mismatch'.
C3_WrongSecret ==
    (/\ Verified
     /\ sigIn.kind = "signed"
     /\ sigIn.signer # sigIn.secret
     /\ sigIn.body = sigIn.payload
     /\ SigSkew <= ToleranceOf(sigIn.toleranceSeconds))
        => sigOut = [ok |-> FALSE, reason |-> "signature mismatch",
                     timestamp |-> Some(sigIn.timestamp)]

C3_Witness ==
    /\ Verified
    /\ sigIn.kind = "signed"
    /\ sigIn.signer # sigIn.secret
    /\ sigIn.body = sigIn.payload
    /\ SigSkew <= ToleranceOf(sigIn.toleranceSeconds)
    /\ sigOut.reason = "signature mismatch"

(***************************************************************************)
(* Claims about templates (checked under SpecTemplate)                     *)
(***************************************************************************)
AllowlistedPaths ==
    {PathResolve(templatesDir, name \o DotHtml) : name \in allowedTemplates}

ReadIsSafe ==
    /\ ~Includes(tplCall.template.val, Str(<<".", ".">>))
    /\ tplCall.path \in AllowlistedPaths
    /\ IsUnder(tplCall.path, templatesDir)

\* C8: an identifier that contains '..' or resolves outside the templates root is
\* rejected before any file system read: whenever a loadTemplate of the file hands
\* a path to readFile, the identifier has no '..' and the path lies strictly under
\* the templates root.
C8_TemplatePathSafety ==
    tplCall.read =>
        (~Includes(tplCall.template.val, Str(<<".", ".">>)) /\ IsUnder(tplCall.path, templatesDir))

\* The same for the loadTemplate of index.ts:330 alone, which goes through
\* resolveTemplatePath: its reads are of allowlisted, root-joined paths.
FirstLoadTemplateSafe == (tplCall.op = "loadTemplate" /\ tplCall.read) => ReadIsSafe

\* C9, the rejection: a name that normalization accepts and that the startup scan
\* did not find is rejected with 'Unknown template' by resolveTemplatePath (and
\* loadTemplate through it) and by validateSendRequest, without a read, whatever
\* the disk holds now.
C9_RejectsUnknown ==
    LET normalized == normalizeTemplateName(tplCall.template)
    IN  (/\ tplCall.op \in {"resolveTemplatePath", "loadTemplate", "validateSendRequest"}
         /\ normalized.ok
         /\ normalized.value \notin allowedTemplates)
            => (~tplCall.ok /\ tplCall.error = "Unknown template" /\ ~tplCall.read)

\* C9: the allowlist is the startup scan, no step changes it (calls or file system
\* changes), and names outside it are rejected as in C9_RejectsUnknown.
C9_StartupOnlyAllowlist ==
    /\ allowedTemplates = safeDiscoverTemplates(disk, templatesDir)
    /\ []C9_RejectsUnknown
    /\ [][allowedTemplates' = allowedTemplates]_vars

\* the file l.html is on disk now, was not at startup, and 'l' is refused
C9_Witness ==
    /\ LateFile \in disk
    /\ tplCall.op = "validateSendRequest"
    /\ tplCall.template = LateName
    /\ tplCall.error = "Unknown template"

(***************************************************************************)
(* Claims about the rate limiter (checked under SpecLimiter)               *)
(***************************************************************************)
Min(a, b) == IF a < b THEN a ELSE b

\* of the requests of a window, exactly the first SEND_RATE_LIMIT are admitted
FirstThirtyAdmitted(w) == w.admitted = Min(w.requests, SEND_RATE_LIMIT)

\* C7 as stated, the key being 'secret:<header value>' whenever the header is
\* present and the client address otherwise: per key and 60-second window, under
\* any interleaving, exactly the first 30 requests are admitted and later ones
\* are refused, and a new window admits again.
C7_BudgetPerStatedKey == \A k \in SpecKeys : FirstThirtyAdmitted(claimWindow[k])

\* C7 as amended, the key being 'secret:<header value>' for a present, non-empty
\* header and the client address otherwise (keyGenerator): the same budget.
C7_BudgetPerKey == \A k \in LimiterKeys : FirstThirtyAdmitted(window[k])

\* a key whose window before refused the requests past the 30th is admitted again
C7_Witness ==
    \E k \in LimiterKeys :
        /\ window[k].refusedBefore
        /\ window[k].admitted >= 1

(***************************************************************************)
(* Claims about the provider webhook (checked under SpecWebhook)           *)
(***************************************************************************)
Acknowledged == hook # NoHook /\ hook.status = 204

\* C4: a webhook request is answered with success, and its event forwarded
\* downstream, only if the webhook secret is configured and the request's
\* signature header verified against it; with the secret unset no request is
\* accepted or forwarded.
C4_WebhookTrustGate ==
    /\ Acknowledged => Trusted(config, hook.request)
    /\ \A i \in 1..Len(forwards) : forwards[i].trusted
    /\ config.webhookSecret = Unset => ~Acknowledged /\ forwards = <<>>

\* the handler of index.ts:480 alone keeps the gate
FirstWebhookFailClosed ==
    (hook # NoHook /\ hook.handler = "first") =>
        /\ Acknowledged => Trusted(config, hook.request)
        /\ \A i \in 1..Len(forwards) : forwards[i].trusted

VerifiedByFirst ==
    hook # NoHook /\ hook.handler = "first" /\ Trusted(config, hook.request)

\* C5: once the signature of a request is verified, the handler's answer is the
\* empty 204 whatever the body holds and whether or not a status is recognized,
\* and it stays the answer while a forward is in flight and however it ends.
C5_VerifiedIsAcknowledged == VerifiedByFirst => hook.status = 204

\* a verified event without a recognized status is acknowledged while the forward
\* of an earlier event has not settled
C5_Witness ==
    /\ VerifiedByFirst
    /\ hook.status = 204
    /\ ~hook.event.def
    /\ forwards # <<>>

(***************************************************************************)
(* Claims about POST /send (checked under Spec)                            *)
(***************************************************************************)
Passed(stage) == \E i \in 1..Len(trace) : trace[i] = stage

\* the first position of a stage in the trace
Position(stage) == CHOOSE i \in 1..Len(trace) : trace[i] = stage /\ \A j \in 1..(i - 1) : trace[j] # stage

Dispatched == Passed("readFile") \/ Passed("providerSend")

GatesPassedInOrder ==
    /\ Passed("limiter:admit") /\ Passed("auth:ok") /\ Passed("validate:ok")
    /\ Position("limiter:admit") < Position("auth:ok")
    /\ Position("auth:ok") < Position("validate:ok")
    /\ Passed("readFile") => Position("validate:ok") < Position("readFile")
    /\ Passed("providerSend") => Position("validate:ok") < Position("providerSend")
    /\ config.apiSecret # Unset
    /\ req.header = SecretHeader(config.apiSecret)
    /\ validateSendRequest(req.body, allowedTemplates).ok

RejectedByLimiter ==
    Passed("limiter:reject") => trace = <<"limiter:reject">> /\ res.code = 429

\* C6: a template file is read and the provider is called only after the limiter
\* admitted the request, then the caller's secret matched the configured one,
\* then validateSendRequest succeeded; a request the limiter rejects gets 429
\* and passes no other stage.
C6_SendGateOrdering ==
    /\ Dispatched => GatesPassedInOrder
    /\ RejectedByLimiter

\* the handler of index.ts:381 alone keeps the order
FirstSendGateOrdering ==
    req.handler = "first" => (Dispatched => GatesPassedInOrder) /\ RejectedByLimiter

\* a request with the valid secret, a valid recipient and an allowlisted template
\* has been answered by the handler of index.ts:381 after the provider call settled
ValidSendAnswered ==
    /\ pc = "done"
    /\ req.handler = "first"
    /\ config.apiSecret # Unset
    /\ req.header = SecretHeader(config.apiSecret)
    /\ validateSendRequest(req.body, allowedTemplates).ok
    /\ ctx.result # "none"

\* C10: such a request is answered {status: 'sent', messageId: <provider id>} when
\* the provider call works, and {status: 'failed', error} with a failure event
\* forwarded to the messages endpoint when the provider call fails.
C10_EndToEndOutcome ==
    ValidSendAnswered =>
        /\ ctx.result = "data" =>
            res.status = "sent" /\ res.messageId = [def |-> TRUE, val |-> "msg-1"]
        /\ ctx.result \in {"error", "throw"} =>
            /\ res.status = "failed"
            /\ res.error # ""
            /\ ctx.forwarded.status = "failed"

\* the part of C10 that the handler keeps: a provider id gives 'sent' with that id,
\* a rejected provider call gives 'failed' with its message
SendOutcomeWhenThrown ==
    ValidSendAnswered =>
        /\ ctx.result = "data" =>
            res.status = "sent" /\ res.messageId = [def |-> TRUE, val |-> "msg-1"]
        /\ ctx.result = "throw" => res.status = "failed" /\ res.error # ""

(***************************************************************************)
(* Claims about validateSendRequest (checked under SpecValidate)           *)
(***************************************************************************)
IdViolated(body) ==
    \/ body.id.type # "string"
    \/ Trim(body.id.val) = <<>>
    \/ Len(Trim(body.id.val)) > 120

ChannelViolated(body) == body.channel # "email"

TemplateViolated(body) ==
    \/ ~normalizeTemplateName(body.template).ok
    \/ normalizeTemplateName(body.template).value \notin allowedTemplates

ToViolated(body) ==
    \/ body.to.type # "string"
    \/ Trim(body.to.val) = <<>>
    \/ Len(Trim(body.to.val)) > 320
    \/ ~EmailRegexTest(Trim(body.to.val))

SubjectViolated(body) ==
    /\ body.subject.type \notin {"undefined", "null"}
    /\ Trim(body.subject.val) = <<>> \/ Len(Trim(body.subject.val)) > 180

\* the size limit as validateSendRequest measures it: the length of
\* JSON.stringify(data) in UTF-16 code units
DataViolated(body) == body.data.type # "object" \/ body.data.jsonLength > 20000

ConstraintMessages ==
    [id |-> {"id is required", "id too long"},
     channel |-> {"Unsupported channel: sms", "Unsupported channel: unknown"},
     template |-> {"Template is required", "Invalid template path", "Unknown template"},
     to |-> {"Valid \"to\" email is required", "body.to?.trim is not a function"},
     subject |-> {"subject is required and must be <= 180 characters"},
     data |-> {"data must be an object", "data payload too large"}]

FirstViolated(body, dataViolated) ==
    IF IdViolated(body) THEN "id"
    ELSE IF ChannelViolated(body) THEN "channel"
    ELSE IF TemplateViolated(body) THEN "template"
    ELSE IF ToViolated(body) THEN "to"
    ELSE IF SubjectViolated(body) THEN "subject"
    ELSE IF dataViolated THEN "data"
    ELSE "none"

ValidatedTuple(body) ==
    [id |-> Trim(body.id.val),
     templateName |-> normalizeTemplateName(body.template).value,
     to |-> Trim(body.to.val),
     subject |-> IF body.subject.type \in {"undefined", "null"} THEN DefaultSubject
                 ELSE Trim(body.subject.val),
     data |-> body.data,
     channel |-> "email"]

ReportsFirstViolated(dataViolated) ==
    LET first == FirstViolated(val.body, dataViolated)
    IN  IF first = "none"
        THEN val.result.ok /\ val.result.value = ValidatedTuple(val.body)
        ELSE ~val.result.ok /\ val.result.error \in ConstraintMessages[first]

\* C11: validateSendRequest reports the first violated constraint in the order
\* id, channel, template, to, subject, data (a non-null object within the size
\* limit), and returns the validated tuple when no constraint is violated.
C11_ValidationOrder ==
    val.stage \in {"validated", "loaded"} => ReportsFirstViolated(DataViolated(val.body))

\* a request that violates the channel, recipient and data constraints is refused
\* with the message about the channel
C11_Witness ==
    /\ val.stage = "validated"
    /\ ~IdViolated(val.body)
    /\ ChannelViolated(val.body)
    /\ ToViolated(val.body)
    /\ DataViolated(val.body)
    /\ val.result.error = "Unsupported channel: sms"

AllButDataValid(body) == FirstViolated(body, FALSE) = "none"

\* C12: with every other field valid, a data mapping whose serialized form is
\* over 20000 bytes is rejected and one of 19999 bytes is accepted, whatever the
\* characters it holds.
C12_DataSizeBound ==
    (val.stage \in {"validated", "loaded"} /\ AllButDataValid(val.body)
        /\ val.body.data.type = "object") =>
        /\ val.body.data.utf8Bytes > 20000 =>
            ~val.result.ok /\ val.result.error = "data payload too large"
        /\ val.body.data.utf8Bytes = 19999 => val.result.ok

\* the bound that validateSendRequest keeps is on UTF-16 code units
DataSizeBoundInCodeUnits ==
    (val.stage \in {"validated", "loaded"} /\ AllButDataValid(val.body)
        /\ val.body.data.type = "object") =>
        (val.result.ok <=> val.body.data.jsonLength <= 20000)

(***************************************************************************)
(* Claims about event normalization (checked under SpecWebhook)            *)
(***************************************************************************)
\* the text of a field as the aliases are matched against it
FieldText(value) ==
    IF value.type = "string" THEN StripEmailPrefix(ToLowerCase(Trim(value.val))) ELSE <<>>

IsAlias(text) == \E a \in EVENT_STATUS_ALIASES : a[1] = text

CanonicalStatus(text) == (CHOOSE a \in EVENT_STATUS_ALIASES : a[1] = text)[2]

\* the canonical status of the first of type, event, status that is an alias
RecognizedStatus(payload) ==
    LET texts == <<FieldText(Member(payload, "type")), FieldText(Member(payload, "event")),
                   FieldText(Member(payload, "status"))>>
        hits == {i \in 1..3 : IsAlias(texts[i])}
    IN  IF hits = {} THEN NoStatus
        ELSE [def |-> TRUE,
              val |-> CanonicalStatus(texts[CHOOSE i \in hits : \A j \in hits : i <= j])]

\* a verified event at a service whose forwarding is configured
VerifiedAndForwardable == VerifiedByFirst /\ postApiPayloadSends(config)

\* C13: for a verified body the status is that of the first of type, event,
\* status that holds a recognized alias; the event is forwarded if and only if
\* one of them does, and is dropped with the same 204 when none does.
C13_StatusExtraction ==
    VerifiedAndForwardable =>
        LET recognized == RecognizedStatus(hook.request.body)
        IN  /\ hook.status = 204
            /\ hook.forward <=> recognized.def
            /\ recognized.def => hook.event.def /\ hook.event.status = recognized.val

InheritedName(payload) ==
    \E f \in {"type", "event", "status"}, o \in ObjectPrototypeMembers :
        FieldText(Member(payload, f)) = o[1]

\* the extraction is as claimed for bodies whose fields hold no name that the
\* alias table inherits from Object.prototype
StatusExtractionOfOwnAliases ==
    (VerifiedAndForwardable /\ ~InheritedName(hook.request.body)) =>
        LET recognized == RecognizedStatus(hook.request.body)
        IN  /\ hook.status = 204
            /\ hook.forward <=> recognized.def
            /\ recognized.def => hook.event.def /\ hook.event.status = recognized.val

(***************************************************************************)
(* Claims about unauthenticated traffic (checked under SpecFlood)          *)
(***************************************************************************)
\* the requests without the valid secret that passed the limiter and reached the
\* authentication check, all within the window that starts at 0
AdmittedUnauthenticated ==
    SumOver([k \in FloodKeys |-> window[k].admitted], FloodKeys)

\* C14: within one window the requests of one address that lack the valid secret
\* and pass the limiter number at most the budget of one address, whatever
\* header values they carry.
C14_BoundedUnauthenticatedWork == AdmittedUnauthenticated <= SEND_RATE_LIMIT

\* the bound that the limiter keeps: one budget for each header value tried
UnauthenticatedWorkPerHeader ==
    AdmittedUnauthenticated
        <= SEND_RATE_LIMIT * Cardinality({k \in FloodKeys : window[k].start >= 0})

(***************************************************************************)
(* Claims about the template of a validated request (under SpecValidate)   *)
(***************************************************************************)
\* the file of the template that validation accepted
ValidatedTemplateFile ==
    PathResolve(templatesDir, val.result.value.templateName \o DotHtml)

LoadsValidatedTemplate ==
    /\ val.load.error # "Unknown template"
    /\ val.load.read => val.load.path = ValidatedTemplateFile

\* C15: for a request that passed validateSendRequest, loadTemplate of the
\* validated name never throws 'Unknown template' and never reads the file of
\* another template than the one validation accepted.
C15_ValidatedTemplateIsLoaded ==
    val.stage = "loaded" => LoadsValidatedTemplate

\* the same for validated names that do not end in '.html'
ValidatedTemplateIsLoadedUnlessSuffixed ==
    (val.stage = "loaded" /\ ~EndsWith(val.result.value.templateName, DotHtml))
        => LoadsValidatedTemplate

(***************************************************************************)
(* Claims about the provider's message id (checked under Spec)             *)
(***************************************************************************)
\* the message records handed to postApiPayload so far that are still known
ForwardedRecords ==
    {forwards[i].payload : i \in 1..Len(forwards)}
        \cup {accepted.payload : accepted \in downstream}
        \cup {ctx.forwarded}

SentCarriesProviderId ==
    /\ res.status = "sent" => res.messageId.def
    /\ \A record \in ForwardedRecords : record.status = "sent" => record.providerMessageId.def

\* C16: a response or forwarded record with status 'sent' carries the provider's
\* message id, and a provider call that completes without a message id (an error
\* result as well as a rejection) is answered with status 'failed'.
C16_SentImpliesProviderId ==
    /\ SentCarriesProviderId
    /\ (pc = "done" /\ ctx.result \in {"error", "throw"}) => res.status = "failed"

\* the same while the provider has not settled with an error result
SentImpliesProviderIdUnlessErrorResult ==
    (ctx.result # "error"
        /\ \A record \in ForwardedRecords : record.status = "sent" => record.providerMessageId.def)
    => C16_SentImpliesProviderId

====
